---- MODULE Spec2Model ----
(***************************************************************************)
(* Serial data recorder (Serial_Logger.ino): a receive interrupt fills the *)
(* serial ring buffer, loop() drains it one byte at a time into the active *)
(* log file on the SD card, flushes on a byte-count or time trigger and    *)
(* rotates through a ring of LOG_FILE_NUMBER_MAX + 1 files.                *)
(*                                                                         *)
(* The program constants are scaled down so that the state space is        *)
(* finite and every case (flush by count, flush by time, rotation, ring    *)
(* wraparound, queue overflow) is reached; the relations the code relies   *)
(* on are the code's own comparisons.                                      *)
(***************************************************************************)
EXTENDS Integers, Sequences, FiniteSets, TLC

\* ---- program constants, scaled (source value in the comment) -----------
\* #define LOG_BYTE_TRIGGER 11250
LOG_BYTE_TRIGGER == 2
\* #define LOG_TIME_TRIGGER 3000
LOG_TIME_TRIGGER == 2
\* #define LOG_FILE_SIZE_TRIGGER 2700000
LOG_FILE_SIZE_TRIGGER == 3
\* #define LOG_FILE_NUMBER_MAX 1299
LOG_FILE_NUMBER_MAX == 4
\* #define SERIAL_BUFFER_SIZE 8192: capacity of the receive ring buffer
SERIAL_BUFFER_SIZE == 2
\* uint32_t: Log_Time, the counters and millis() are words that wrap at 2^32;
\* the word is scaled to 4 bits
UINT32 == 16

LOG_FILE_PREFIX == "Dat"
LOG_FILE_SUFFIX == ".log"

\* ---- bounds of the model -----------------------------------------------
\* bytes the serial source sends in one run
MaxBytes == 7
\* milliseconds that pass in one run
MaxMillis == 4
\* size of a log file that is on the card before power-up
MaxOldSize == 1

\* ---- file names ----------------------------------------------------------
\* String(x) of the Arduino core: the decimal digits of x, no padding
Digit(d) ==
  CASE d = 0 -> "0" [] d = 1 -> "1" [] d = 2 -> "2" [] d = 3 -> "3"
    [] d = 4 -> "4" [] d = 5 -> "5" [] d = 6 -> "6" [] d = 7 -> "7"
    [] d = 8 -> "8" [] d = 9 -> "9"

RECURSIVE String(_)
String(x) == IF x < 10 THEN Digit(x) ELSE String(x \div 10) \o Digit(x % 10)

\* the padding with its thresholds placed at 1000, 100 and 10
Str_Zeros_Thresholds(x) ==
  IF x > 1000 THEN ""
  ELSE IF x > 100 THEN "0"
  ELSE IF x > 10 THEN "00"
  ELSE "000"

Str_Zeros(x) ==
  IF x > 999 THEN ""
  ELSE IF x > 99 THEN "0"
  ELSE IF x > 9 THEN "00"
  ELSE "000"

LOG_FILE(x) == LOG_FILE_PREFIX \o Str_Zeros(x) \o String(x) \o LOG_FILE_SUFFIX

\* the slots of the ring and their names
Ring == 0 .. LOG_FILE_NUMBER_MAX
RingSize == LOG_FILE_NUMBER_MAX + 1
RingNames == { LOG_FILE(i) : i \in Ring }

\* ---- decisions of setup() and loop() ------------------------------------
\* a scan that stops at the first slot that exists instead of the first free one
ScanContinues_Inverted(n, card) ==
  (n < LOG_FILE_NUMBER_MAX) /\ (LOG_FILE(n) \notin DOMAIN card)

\* setup(): condition of the scan loop, "while ((n < MAX) && SD.exists(..))"
ScanContinues(n, card) ==
  (n < LOG_FILE_NUMBER_MAX) /\ (LOG_FILE(n) \in DOMAIN card)

\* the eviction aimed at the slot two places on
NextInLine_Skip(n) == IF n + 2 > LOG_FILE_NUMBER_MAX THEN 0 ELSE n + 2

\* the eviction without its special case for the last slot of the ring
NextInLine_NoWrap(n) == n + 1

\* setup()/loop(): "Delete the next file in line": index of the slot removed
NextInLine(n) == IF n = LOG_FILE_NUMBER_MAX THEN 0 ELSE n + 1

\* the increment of the log file number without its wrap to 0
Advance_NoWrap(n) == (n + 1) % UINT32

\* loop(): "if (++Log_File_Number > LOG_FILE_NUMBER_MAX) Log_File_Number = 0"
Advance(n) ==
  IF (n + 1) % UINT32 > LOG_FILE_NUMBER_MAX THEN 0 ELSE (n + 1) % UINT32

\* the byte trigger firing one byte late
ByteTrigger_Late(count) == count > LOG_BYTE_TRIGGER

\* loop(): the two halves of the flush condition
ByteTrigger(count) == count >= LOG_BYTE_TRIGGER
TimeTrigger(now, deadline) == now >= deadline

\* loop(): "Log_Time = millis() + LOG_TIME_TRIGGER" in uint32_t
Deadline(now) == (now + LOG_TIME_TRIGGER) % UINT32

\* the size test off by one: a file of exactly the trigger size is kept
JustFlush_OffByOne(fileBytes) == fileBytes <= LOG_FILE_SIZE_TRIGGER

\* loop(): "if (Log_File_Byte_Count < LOG_FILE_SIZE_TRIGGER)" flush, else rotate
JustFlush(fileBytes) == fileBytes < LOG_FILE_SIZE_TRIGGER

\* ---- the SD card ----------------------------------------------------------
\* the card is a function from the names of the files that exist to their size
NoFile == "none"
SdRemove(card, name) == [ f \in DOMAIN card \ {name} |-> card[f] ]
\* FILE_WRITE: create the file if absent, keep its content, position at its end
SdOpen(card, name) ==
  IF name \in DOMAIN card THEN card
  ELSE [ f \in DOMAIN card \cup {name} |-> IF f = name THEN 0 ELSE card[f] ]
SdWrite(card, name) == [ card EXCEPT ![name] = @ + 1 ]

\* a receive buffer that makes room for the new byte by dropping its oldest
StoreChar_DropsOldest(buf, c) ==
  IF Len(buf) < SERIAL_BUFFER_SIZE THEN Append(buf, c) ELSE Append(Tail(buf), c)

\* RingBuffer::store_char of the receive interrupt: a byte that finds the
\* buffer full is dropped
StoreChar(buf, c) == IF Len(buf) < SERIAL_BUFFER_SIZE THEN Append(buf, c) ELSE buf

VARIABLES
  pc,                   \* position of the main program (setup(), then loop())
  led,                  \* the two debug LEDs of the failure signal
  sd,                   \* the files on the card
  dataFile,             \* name of the file the open handle is on, or NoFile
  handles,              \* the files the SD library holds open
  Log_Time, Log_Byte_Count, Log_File_Byte_Count, Log_File_Number,
  millis,               \* the millisecond clock
  rx,                   \* the serial receive buffer (Serial2)
  irq,                  \* whether Serial2.begin has enabled the receive interrupt
  sent,                 \* number of bytes the source has put on the wire
  accepted,             \* history: the bytes the interrupt stored in rx
  appended,             \* history: <<file, byte>> of every dataFile.write
  unflushed,            \* history: bytes written since the last flush or close
  calls,                \* history: the storage calls of setup(), then of the
                        \* current iteration of the drain loop
  fired,                \* history: <<byte trigger, time trigger>> as evaluated
                        \* for the last drained byte
  ring0,                \* history: the slots that existed at power-up
  openSize,             \* history: size of the active file when it was opened
  lost                  \* history: at the last power loss, the file that was
                        \* active and the file last written since power-up

vars == << pc, led, sd, dataFile, handles, Log_Time, Log_Byte_Count, Log_File_Byte_Count,
           Log_File_Number, millis, rx, irq, sent, accepted, appended, unflushed,
           calls, fired, ring0, openSize, lost >>

logvars == << Log_Time, Log_Byte_Count, Log_File_Byte_Count, Log_File_Number >>
envvars == << millis, rx, irq, sent, accepted >>
histvars == << appended, unflushed, ring0, openSize, lost >>

Call(op, name) == << op, name >>

\* ---- initial state: power-up -------------------------------------------
Init ==
  /\ pc = "begin"
  /\ led = "on"
  /\ \E S \in SUBSET Ring : \E s \in 1 .. MaxOldSize :
        /\ sd = [ f \in { LOG_FILE(i) : i \in S } |-> s ]
        /\ ring0 = S
  /\ dataFile = NoFile
  /\ handles = { }
  /\ openSize = 0
  /\ lost = [ active |-> NoFile, written |-> NoFile ]
  /\ Log_Time = 0
  /\ Log_Byte_Count = 0
  /\ Log_File_Byte_Count = 0
  /\ Log_File_Number = 0
  /\ millis = 0
  /\ rx = << >>
  /\ irq = FALSE
  /\ sent = 0
  /\ accepted = << >>
  /\ appended = << >>
  /\ unflushed = 0
  /\ calls = << >>
  /\ fired = << FALSE, FALSE >>

\* ---- setup() -------------------------------------------------------------
\* "if (!SD.begin(chipSelect))": the card is present and initialises, or not
SdBegin ==
  /\ pc = "begin"
  /\ \E ok \in BOOLEAN :
        pc' = IF ok THEN "scan" ELSE "fail"
  /\ Log_File_Number' = 0
  /\ UNCHANGED << led, sd, dataFile, handles, Log_Time, Log_Byte_Count,
                  Log_File_Byte_Count, envvars, histvars, calls, fired >>

\* a fail signal that is shown once, after which setup() goes on
FailBlink_Once ==
  /\ pc = "fail"
  /\ led' = IF led = "on" THEN "off" ELSE "on"
  /\ pc' = "scan"
  /\ UNCHANGED << sd, dataFile, handles, logvars, envvars, histvars, calls,
                  fired >>

\* "while(1)" of the fail signal: the LEDs blink for ever
FailBlink ==
  /\ pc = "fail"
  /\ led' = IF led = "on" THEN "off" ELSE "on"
  /\ UNCHANGED << pc, sd, dataFile, handles, logvars, envvars, histvars, calls, fired >>

\* one evaluation of the scan loop's condition, and its body
Scan ==
  /\ pc = "scan"
  /\ calls' = IF Log_File_Number < LOG_FILE_NUMBER_MAX
                THEN Append(calls, Call("exists", LOG_FILE(Log_File_Number)))
                ELSE calls
  /\ IF ScanContinues(Log_File_Number, sd)
       THEN /\ Log_File_Number' = Log_File_Number + 1
            /\ pc' = "scan"
       ELSE /\ Log_File_Number' = Log_File_Number
            /\ pc' = "full"
  /\ UNCHANGED << led, sd, dataFile, handles, Log_Time, Log_Byte_Count,
                  Log_File_Byte_Count, envvars, histvars, fired >>

\* "if (Log_File_Number > LOG_FILE_NUMBER_MAX)": kill file 000 and start over
FullCheck ==
  /\ pc = "full"
  /\ IF Log_File_Number > LOG_FILE_NUMBER_MAX
       THEN /\ Log_File_Number' = 0
            /\ sd' = SdRemove(sd, LOG_FILE(0))
            /\ calls' = Append(calls, Call("remove", LOG_FILE(0)))
       ELSE UNCHANGED << Log_File_Number, sd, calls >>
  /\ pc' = "evict"
  /\ UNCHANGED << led, dataFile, handles, Log_Time, Log_Byte_Count,
                  Log_File_Byte_Count, envvars, histvars, fired >>

\* "Delete the next file in line if present"
SetupEvict ==
  /\ pc = "evict"
  /\ sd' = SdRemove(sd, LOG_FILE(NextInLine(Log_File_Number)))
  /\ calls' = Append(calls, Call("remove", LOG_FILE(NextInLine(Log_File_Number))))
  /\ pc' = "open"
  /\ UNCHANGED << led, dataFile, handles, logvars, envvars, histvars, fired >>

\* "dataFile = SD.open(LOG_FILE(Log_File_Number), FILE_WRITE)"
SetupOpen ==
  /\ pc = "open"
  /\ sd' = SdOpen(sd, LOG_FILE(Log_File_Number))
  /\ dataFile' = LOG_FILE(Log_File_Number)
  /\ handles' = handles \cup { LOG_FILE(Log_File_Number) }
  /\ openSize' = SdOpen(sd, LOG_FILE(Log_File_Number))[LOG_FILE(Log_File_Number)]
  /\ calls' = Append(calls, Call("open", LOG_FILE(Log_File_Number)))
  /\ pc' = "serial"
  /\ UNCHANGED << led, logvars, envvars, appended, unflushed, ring0, lost, fired >>

\* "Serial2.begin(230400)": from here on the receive interrupt is live
SerialBegin ==
  /\ pc = "serial"
  /\ irq' = TRUE
  /\ pc' = "avail"
  /\ UNCHANGED << led, sd, dataFile, handles, logvars, millis, rx, sent, accepted,
                  histvars, calls, fired >>

\* ---- loop() --------------------------------------------------------------
\* "while(Serial2.available())" is false: loop() returns and is called again
LoopIdle ==
  /\ pc = "avail"
  /\ rx = << >>
  /\ UNCHANGED vars

\* a drain that writes the first byte of the buffer without taking it out
\* (peek() for read())
Drain_Peek ==
  /\ pc = "avail"
  /\ rx # << >>
  /\ rx' = rx
  /\ sd' = IF dataFile \in DOMAIN sd THEN SdWrite(sd, dataFile) ELSE sd
  /\ appended' = IF dataFile \in DOMAIN sd
                    THEN Append(appended, << dataFile, Head(rx) >>)
                    ELSE appended
  /\ unflushed' = IF dataFile \in DOMAIN sd THEN unflushed + 1 ELSE unflushed
  /\ Log_File_Byte_Count' = (Log_File_Byte_Count + 1) % UINT32
  /\ Log_Byte_Count' = (Log_Byte_Count + 1) % UINT32
  /\ calls' = << Call("write", dataFile) >>
  /\ fired' = << FALSE, FALSE >>
  /\ pc' = "trig"
  /\ UNCHANGED << led, dataFile, handles, Log_Time, Log_File_Number, millis, irq, sent,
                  accepted, ring0, openSize, lost >>

\* "dataFile.write(Serial2.read())" and the increment of the two byte counters;
\* a write on a File that is not open stores nothing
Drain ==
  /\ pc = "avail"
  /\ rx # << >>
  /\ rx' = Tail(rx)
  /\ sd' = IF dataFile \in DOMAIN sd THEN SdWrite(sd, dataFile) ELSE sd
  /\ appended' = IF dataFile \in DOMAIN sd
                    THEN Append(appended, << dataFile, Head(rx) >>)
                    ELSE appended
  /\ unflushed' = IF dataFile \in DOMAIN sd THEN unflushed + 1 ELSE unflushed
  /\ Log_File_Byte_Count' = (Log_File_Byte_Count + 1) % UINT32
  /\ Log_Byte_Count' = (Log_Byte_Count + 1) % UINT32
  /\ calls' = << Call("write", dataFile) >>
  /\ fired' = << FALSE, FALSE >>
  /\ pc' = "trig"
  /\ UNCHANGED << led, dataFile, handles, Log_Time, Log_File_Number, millis, irq, sent,
                  accepted, ring0, openSize, lost >>

\* "if ((Log_Byte_Count >= LOG_BYTE_TRIGGER) || (millis() >= Log_Time))"
Trigger ==
  /\ pc = "trig"
  /\ fired' = << ByteTrigger(Log_Byte_Count), TimeTrigger(millis, Log_Time) >>
  /\ pc' = IF ByteTrigger(Log_Byte_Count) \/ TimeTrigger(millis, Log_Time)
             THEN "rearm" ELSE "avail"
  /\ UNCHANGED << led, sd, dataFile, handles, logvars, envvars, histvars, calls >>

\* a re-arm that resets only the trigger that fired first: the deadline is
\* left alone when the byte trigger holds
Rearm_OneTrigger ==
  /\ pc = "rearm"
  /\ Log_Byte_Count' = 0
  /\ Log_Time' = IF fired[1] THEN Log_Time ELSE Deadline(millis)
  /\ pc' = IF JustFlush(Log_File_Byte_Count) THEN "flush" ELSE "close"
  /\ UNCHANGED << led, sd, dataFile, handles, Log_File_Byte_Count, Log_File_Number,
                  envvars, histvars, calls, fired >>

\* "Reset the byte and time triggers", then choose between flush and rotation
Rearm ==
  /\ pc = "rearm"
  /\ Log_Byte_Count' = 0
  /\ Log_Time' = Deadline(millis)
  /\ pc' = IF JustFlush(Log_File_Byte_Count) THEN "flush" ELSE "close"
  /\ UNCHANGED << led, sd, dataFile, handles, Log_File_Byte_Count, Log_File_Number,
                  envvars, histvars, calls, fired >>

\* "dataFile.flush()"
Flush ==
  /\ pc = "flush"
  /\ unflushed' = 0
  /\ calls' = Append(calls, Call("flush", dataFile))
  /\ pc' = "avail"
  /\ UNCHANGED << led, sd, dataFile, handles, logvars, envvars, appended, fired, ring0, openSize,
                  lost >>

\* a rotation that does not close the old file before it opens the next
Close_LeavesOpen ==
  /\ pc = "close"
  /\ Log_File_Byte_Count' = 0
  /\ unflushed' = 0
  /\ calls' = Append(calls, Call("close", dataFile))
  /\ dataFile' = NoFile
  /\ handles' = handles
  /\ Log_File_Number' = Advance(Log_File_Number)
  /\ pc' = "remove"
  /\ UNCHANGED << led, sd, Log_Time, Log_Byte_Count, envvars, appended, fired,
                  ring0, openSize, lost >>

\* "Log_File_Byte_Count = 0; dataFile.close();" and the increment of the
\* log file number with its wrap to 0
Close ==
  /\ pc = "close"
  /\ Log_File_Byte_Count' = 0
  /\ unflushed' = 0
  /\ calls' = Append(calls, Call("close", dataFile))
  /\ dataFile' = NoFile
  /\ handles' = handles \ { dataFile }
  /\ Log_File_Number' = Advance(Log_File_Number)
  /\ pc' = "remove"
  /\ UNCHANGED << led, sd, Log_Time, Log_Byte_Count, envvars, appended, fired,
                  ring0, openSize, lost >>

\* "Delete the next file in line if it exists"
Evict ==
  /\ pc = "remove"
  /\ sd' = SdRemove(sd, LOG_FILE(NextInLine(Log_File_Number)))
  /\ calls' = Append(calls, Call("remove", LOG_FILE(NextInLine(Log_File_Number))))
  /\ pc' = "reopen"
  /\ UNCHANGED << led, dataFile, handles, logvars, envvars, histvars, fired >>

\* "Create and open the new file for writing"
Reopen ==
  /\ pc = "reopen"
  /\ sd' = SdOpen(sd, LOG_FILE(Log_File_Number))
  /\ dataFile' = LOG_FILE(Log_File_Number)
  /\ handles' = handles \cup { LOG_FILE(Log_File_Number) }
  /\ openSize' = SdOpen(sd, LOG_FILE(Log_File_Number))[LOG_FILE(Log_File_Number)]
  /\ calls' = Append(calls, Call("open", LOG_FILE(Log_File_Number)))
  /\ pc' = "avail"
  /\ UNCHANGED << led, logvars, envvars, appended, unflushed, ring0, lost, fired >>

\* ---- the environment ------------------------------------------------------
\* SERCOM1_Handler: a byte arrives from the source; byte k of the stream
\* carries the value k, so that a reordering or a duplication shows
SERCOM1_Handler ==
  /\ irq
  /\ sent < MaxBytes
  /\ sent' = sent + 1
  /\ rx' = StoreChar(rx, sent + 1)
  /\ accepted' = IF rx' # rx THEN Append(accepted, sent + 1) ELSE accepted
  /\ UNCHANGED << pc, led, sd, dataFile, handles, logvars, millis, irq, histvars, calls,
                  fired >>

\* a millisecond passes
Tick ==
  /\ millis < MaxMillis
  /\ millis' = (millis + 1) % UINT32
  /\ UNCHANGED << pc, led, sd, dataFile, handles, logvars, rx, irq, sent, accepted,
                  histvars, calls, fired >>

Next ==
  \/ SdBegin \/ FailBlink \/ Scan \/ FullCheck \/ SetupEvict \/ SetupOpen
  \/ SerialBegin
  \/ LoopIdle \/ Drain \/ Trigger \/ Rearm \/ Flush \/ Close \/ Evict \/ Reopen
  \/ SERCOM1_Handler \/ Tick

Spec == Init /\ [][Next]_vars

\* ---- helpers of the properties -------------------------------------------
\* the bytes of a sequence of <<file, byte>> writes
Bytes(ws) == [ i \in 1 .. Len(ws) |-> ws[i][2] ]
\* the bytes 1 .. n of the stream, as sent
Stream(n) == [ i \in 1 .. n |-> i ]
\* the storage calls of one kind in a trace
CallsOf(cs, ops) == { i \in 1 .. Len(cs) : cs[i][1] \in ops }
\* the slot after slot n in ring order
After(n) == (n + 1) % RingSize
\* a rotation is under way or has ended in the current iteration of the drain loop
Rotating == Len(calls) >= 2 /\ calls[1][1] = "write" /\ calls[2][1] = "close"

\* ---- C1 --------------------------------------------------------------------
\* C1 as stated: once every byte received has been drained, the bytes appended
\* to storage equal the bytes the source sent, whatever the interleaving of the
\* receive interrupt with loop().
C1_AppendedEqualsInput ==
  (pc = "avail" /\ rx = << >>) => Bytes(appended) = Stream(sent)

\* C1 amended: the bytes appended, followed by the bytes still in the receive
\* buffer, are exactly the bytes the interrupt stored, in the order received:
\* the input less the bytes that met a full buffer, nothing reordered,
\* duplicated or inserted, and equal to the input when no byte was dropped;
\* consecutive writes go to the same file or to the file of the next slot.
C1_AppendedIsAcceptedInput ==
  LET out == Bytes(appended) \o rx IN
  /\ out = accepted
  /\ \A i \in 1 .. Len(out) : out[i] \in 1 .. sent
  /\ \A i, j \in 1 .. Len(out) : i < j => out[i] < out[j]
  /\ (\A k \in 1 .. sent : \E i \in 1 .. Len(out) : out[i] = k) => out = Stream(sent)
  /\ \A i \in 1 .. Len(appended) - 1 :
        \/ appended[i + 1][1] = appended[i][1]
        \/ \E k \in Ring : /\ appended[i][1] = LOG_FILE(k)
                           /\ appended[i + 1][1] = LOG_FILE(After(k))

\* bytes arrived during a rotation, one was dropped on a full buffer, and the
\* bytes stored reach over a file boundary
C1_Witness ==
  /\ pc = "avail" /\ rx = << >>
  /\ Len(accepted) < sent
  /\ Len(appended) >= 4
  /\ appended[1][1] # appended[Len(appended)][1]

\* ---- C2 --------------------------------------------------------------------
\* C2: a rotation issues, in this order, close of the old file, one remove, of
\* the slot after the new active index, and the open of the new active slot;
\* when the new slot is opened the removed slot is absent, and nothing is
\* written between the close and the open.
C2_RotationEvictsNext ==
  Rotating =>
    LET whole == << calls[1], calls[2],
                    Call("remove", LOG_FILE(After(Log_File_Number))),
                    Call("open", LOG_FILE(Log_File_Number)) >>
    IN /\ Len(calls) <= 4
       /\ calls = SubSeq(whole, 1, Len(calls))
       /\ Len(calls) = 2 <=> pc = "remove"
       /\ Len(calls) = 3 <=> pc = "reopen"
       /\ Len(calls) = 3 => /\ dataFile = NoFile
                            /\ LOG_FILE(After(Log_File_Number)) \notin DOMAIN sd
       /\ Len(calls) = 4 => /\ dataFile = LOG_FILE(Log_File_Number)
                            /\ LOG_FILE(After(Log_File_Number)) \notin DOMAIN sd
                            /\ appended[Len(appended)][1] # dataFile

\* a rotation into the last slot of the ring has removed slot 0 and ended
C2_Witness ==
  /\ Rotating /\ Len(calls) = 4
  /\ Log_File_Number = LOG_FILE_NUMBER_MAX
  /\ calls[3] = Call("remove", LOG_FILE(0))
  /\ 0 \in ring0

\* ---- C3 --------------------------------------------------------------------
\* C3: at every flush point (the trigger has fired and the counters are
\* re-armed) the file is closed for rotation if and only if
\* Log_File_Byte_Count >= LOG_FILE_SIZE_TRIGGER; otherwise it is flushed, and
\* the flush leaves the active file, its index and the card as they are.
C3_RotateIffThreshold ==
  [][ /\ (pc = "rearm" /\ pc' # pc) =>
           IF Log_File_Byte_Count >= LOG_FILE_SIZE_TRIGGER
             THEN pc' = "close" ELSE pc' = "flush"
      /\ (pc = "flush" /\ pc' # pc) =>
           /\ calls' = Append(calls, Call("flush", dataFile))
           /\ dataFile' = dataFile /\ Log_File_Number' = Log_File_Number
           /\ sd' = sd /\ pc' = "avail"
      /\ (pc = "close" /\ pc' # pc) =>
           /\ calls' = Append(calls, Call("close", dataFile))
           /\ Log_File_Number' = After(Log_File_Number)
           /\ pc' = "remove"
    ]_vars

\* a flush point below the threshold was followed by one above it, which rotates
C3_Witness ==
  /\ pc = "remove"
  /\ Log_File_Number >= 1
  /\ sd[LOG_FILE(Log_File_Number - 1)] > LOG_FILE_SIZE_TRIGGER
  /\ (Log_File_Number - 1) \notin ring0

\* ---- C4 --------------------------------------------------------------------
\* C4: when a slot is free at power-up, setup() leaves the scan with the
\* lowest free index and has removed nothing yet; it then removes the slot
\* after that index, and only then opens the active file, before any write.
C4_SetupPicksFirstFree ==
  /\ (pc \in { "full", "evict", "open", "serial" } /\ ring0 # Ring) =>
        /\ Log_File_Number \in Ring \ ring0
        /\ \A i \in Ring \ ring0 : Log_File_Number <= i
  /\ (pc \in { "full", "evict" } /\ ring0 # Ring) =>
        /\ CallsOf(calls, { "remove", "open" }) = { }
        /\ DOMAIN sd = { LOG_FILE(i) : i \in ring0 }
  /\ (pc \in { "open", "serial" } /\ ring0 # Ring) =>
        /\ CallsOf(calls, { "remove" }) =
             { i \in 1 .. Len(calls) :
                 calls[i] = Call("remove", LOG_FILE(After(Log_File_Number))) }
        /\ Cardinality(CallsOf(calls, { "remove" })) = 1
        /\ DOMAIN sd \ { LOG_FILE(Log_File_Number) } =
             { LOG_FILE(i) : i \in ring0 \ { After(Log_File_Number) } }
        /\ appended = << >>
  /\ (pc = "open" /\ ring0 # Ring) =>
        /\ dataFile = NoFile
        /\ calls[Len(calls)][1] = "remove"
  /\ (pc = "serial" /\ ring0 # Ring) =>
        /\ dataFile = LOG_FILE(Log_File_Number)
        /\ calls[Len(calls)] = Call("open", LOG_FILE(Log_File_Number))
        /\ calls[Len(calls) - 1][1] = "remove"

\* slots {0,1,2} and 4 existed: index 3 is active and slot 4 has been removed
C4_Witness ==
  /\ pc = "serial"
  /\ ring0 = { 0, 1, 2, 4 }
  /\ Log_File_Number = 3
  /\ DOMAIN sd = { LOG_FILE(0), LOG_FILE(1), LOG_FILE(2), LOG_FILE(3) }

\* ---- C5 --------------------------------------------------------------------
\* C5 as stated: when every slot exists at power-up, setup() ends with slot 0
\* removed and opened afresh as the active file and with slot 1 removed, and
\* nothing has been written yet.
C5_FullRingReusesSlotZero ==
  (pc = "serial" /\ ring0 = Ring) =>
     /\ Log_File_Number = 0
     /\ dataFile = LOG_FILE(0)
     /\ sd[LOG_FILE(0)] = 0
     /\ LOG_FILE(1) \notin DOMAIN sd
     /\ appended = << >>

\* ---- C6 --------------------------------------------------------------------
\* C6: from the end of setup() on, outside the remove and open of a rotation,
\* the slot after the active one does not exist; and the slot a rotation
\* opens does not exist when it is opened.
C6_NextSlotAbsent ==
  /\ pc \in { "serial", "avail", "trig", "rearm", "flush", "close" } =>
        /\ dataFile = LOG_FILE(Log_File_Number)
        /\ LOG_FILE(After(Log_File_Number)) \notin DOMAIN sd
  /\ pc \in { "remove", "reopen" } =>
        LOG_FILE(Log_File_Number) \notin DOMAIN sd

\* after a second rotation the slot after the active one, which existed at
\* power-up, is absent
C6_Witness ==
  /\ pc = "avail"
  /\ Rotating
  /\ appended[1][1] # appended[Len(appended)][1]
  /\ After(Log_File_Number) \in ring0
  /\ LOG_FILE(After(Log_File_Number)) \notin DOMAIN sd

\* ---- C7 --------------------------------------------------------------------
\* C7: Log_File_Number is always within 0 .. LOG_FILE_NUMBER_MAX, every name
\* passed to the card is the name of a slot of the ring, and a rotation leaves
\* the index one past the index of the file it closed, slot 0 following the
\* last slot.
C7_IndexInRing ==
  /\ Log_File_Number \in Ring
  /\ \A i \in 1 .. Len(calls) : calls[i][2] \in RingNames
  /\ \A i \in 1 .. Len(calls) :
        calls[i][1] = "close" =>
           \E k \in Ring : /\ calls[i][2] = LOG_FILE(k)
                           /\ Log_File_Number = After(k)
                           /\ (k = LOG_FILE_NUMBER_MAX => Log_File_Number = 0)

\* the last slot of the ring has rolled over: slot 0 is active, slot 1 removed
C7_Witness ==
  /\ pc = "avail"
  /\ calls = << Call("write", LOG_FILE(LOG_FILE_NUMBER_MAX)),
                Call("close", LOG_FILE(LOG_FILE_NUMBER_MAX)),
                Call("remove", LOG_FILE(1)),
                Call("open", LOG_FILE(0)) >>
  /\ Log_File_Number = 0
  /\ 1 \in ring0

\* ---- C8 --------------------------------------------------------------------
\* C8: when the byte trigger and the time trigger both hold for a drained
\* byte, the counters are re-armed in one step (Log_Byte_Count to 0, Log_Time
\* to millis() + LOG_TIME_TRIGGER), and the iteration ends with exactly one
\* flush or close; no iteration issues more than one.
C8_BothTriggersOneFlush ==
  [][ /\ (fired = << TRUE, TRUE >> /\ pc = "rearm" /\ pc' # pc) =>
           /\ Log_Byte_Count' = 0
           /\ Log_Time' = (millis + LOG_TIME_TRIGGER) % UINT32
           /\ pc' \in { "flush", "close" }
      /\ (fired' = << TRUE, TRUE >> /\ pc' = "avail") =>
           /\ Cardinality(CallsOf(calls', { "flush", "close" })) = 1
           /\ Log_Byte_Count' = 0
      /\ Cardinality(CallsOf(calls', { "flush", "close" })) <= 1
    ]_vars

\* both triggers held for a byte and its one flush has been issued
C8_Witness ==
  /\ pc = "avail"
  /\ fired = << TRUE, TRUE >>
  /\ calls = << Call("write", dataFile), Call("flush", dataFile) >>
  /\ Log_Time = millis + LOG_TIME_TRIGGER

\* ---- C9 --------------------------------------------------------------------
\* C9: at the end of every iteration of the drain loop Log_Byte_Count and the
\* number of bytes written but not yet flushed or closed are below
\* LOG_BYTE_TRIGGER, and the two are equal; the unflushed bytes never exceed
\* LOG_BYTE_TRIGGER.
C9_UnflushedBelowTrigger ==
  /\ pc = "avail" => /\ Log_Byte_Count < LOG_BYTE_TRIGGER
                     /\ unflushed = Log_Byte_Count
  /\ unflushed <= LOG_BYTE_TRIGGER

\* the byte trigger alone has fired with LOG_BYTE_TRIGGER bytes unflushed
C9_Witness ==
  /\ pc = "flush"
  /\ fired = << TRUE, FALSE >>
  /\ unflushed = LOG_BYTE_TRIGGER

\* ---- C10 -------------------------------------------------------------------
\* the main program always takes its next step; the source may fall silent
MainStep ==
  \/ SdBegin \/ FailBlink \/ Scan \/ FullCheck \/ SetupEvict \/ SetupOpen
  \/ SerialBegin
  \/ LoopIdle \/ Drain \/ Trigger \/ Rearm \/ Flush \/ Close \/ Evict \/ Reopen

FairSpec == Init /\ [][Next]_vars /\ WF_vars(MainStep)

\* C10 as stated: whenever bytes are unflushed and the clock has reached
\* Log_Time, a flush or close follows, whether or not another byte arrives.
C10_TimeTriggerFlushes ==
  (unflushed > 0 /\ TimeTrigger(millis, Log_Time)) ~> (unflushed = 0)

\* ---- C11 -------------------------------------------------------------------
\* C11 as stated: the active file never holds more than LOG_FILE_SIZE_TRIGGER
\* bytes.
C11_ActiveFileWithinTrigger ==
  dataFile # NoFile => sd[dataFile] <= LOG_FILE_SIZE_TRIGGER

\* C11 amended: the active file never holds more than LOG_FILE_SIZE_TRIGGER +
\* LOG_BYTE_TRIGGER - 1 bytes beyond those it held when it was opened, and
\* after a flush point that did not rotate it holds fewer than
\* LOG_FILE_SIZE_TRIGGER beyond them.
C11_ActiveFileWithinOvershoot ==
  dataFile # NoFile =>
    /\ sd[dataFile] - openSize <= LOG_FILE_SIZE_TRIGGER + LOG_BYTE_TRIGGER - 1
    /\ (pc = "avail" /\ Len(calls) = 2 /\ calls[2][1] = "flush") =>
          sd[dataFile] - openSize < LOG_FILE_SIZE_TRIGGER

\* a file opened empty has grown to the largest size it can reach
C11_Witness ==
  /\ dataFile # NoFile
  /\ openSize = 0
  /\ sd[dataFile] = LOG_FILE_SIZE_TRIGGER + LOG_BYTE_TRIGGER - 1

\* ---- C12 -------------------------------------------------------------------
\* C12: at most one file is open at any time; wherever loop() writes or
\* flushes, the one open file is the file of the current Log_File_Number and
\* the write or flush goes to it; between the close and the open of a
\* rotation no file is open.
C12_OneHandle ==
  /\ Cardinality(handles) <= 1
  /\ pc \in { "serial", "avail", "trig", "rearm", "flush", "close" } =>
        /\ handles = { LOG_FILE(Log_File_Number) }
        /\ dataFile = LOG_FILE(Log_File_Number)
  /\ pc \in { "remove", "reopen" } => handles = { } /\ dataFile = NoFile
  /\ pc \in { "trig", "rearm", "flush", "close" } =>
        calls[1] = Call("write", LOG_FILE(Log_File_Number))
  /\ (pc = "avail" /\ Len(calls) = 2 /\ calls[2][1] = "flush") =>
        calls[2] = Call("flush", LOG_FILE(Log_File_Number))
  /\ Rotating =>
        /\ calls[1][2] = calls[2][2]
        /\ Len(calls) = 4 => handles = { calls[4][2] } /\ calls[4][2] # calls[2][2]

\* a rotation has ended: the old file is closed and only the new one is open
C12_Witness ==
  /\ Rotating /\ Len(calls) = 4
  /\ handles = { LOG_FILE(Log_File_Number) }
  /\ calls[2][2] \in DOMAIN sd
  /\ sd[dataFile] = 0

\* ---- C13 -------------------------------------------------------------------
\* C13: once SD.begin has failed the program stays in the fail signal for
\* ever, and there no slot has been tested, removed or opened, the card is as
\* it was at power-up, the serial port is not started and no byte has been
\* read or written.
C13_StorageFailureIsFinal ==
  [][ /\ pc = "fail" => pc' = "fail"
      /\ pc' = "fail" =>
           /\ calls' = << >>
           /\ sd' = sd /\ DOMAIN sd' = { LOG_FILE(i) : i \in ring0 }
           /\ handles' = { } /\ dataFile' = NoFile
           /\ irq' = FALSE /\ rx' = << >> /\ sent' = 0
           /\ appended' = << >>
    ]_vars

\* the fail signal is blinking on a card that holds files
C13_Witness ==
  /\ pc = "fail"
  /\ led = "off"
  /\ ring0 = Ring

\* ---- C19 -------------------------------------------------------------------
\* C19: Log_File_Byte_Count never exceeds LOG_FILE_SIZE_TRIGGER +
\* LOG_BYTE_TRIGGER - 1.
C19_FileByteCountBound ==
  Log_File_Byte_Count <= LOG_FILE_SIZE_TRIGGER + LOG_BYTE_TRIGGER - 1

\* the bound is met: a flush point just below the size trigger was followed by
\* LOG_BYTE_TRIGGER bytes
C19_Witness ==
  /\ pc = "close"
  /\ fired = << TRUE, FALSE >>
  /\ Log_File_Byte_Count = LOG_FILE_SIZE_TRIGGER + LOG_BYTE_TRIGGER - 1

\* ---- C14 -------------------------------------------------------------------
\* "dataFile = SD.open(..)" of a rotation fails: SD.open returns a File that is
\* not open, the result is not tested and loop() goes on
ReopenFails ==
  /\ pc = "reopen"
  /\ dataFile' = NoFile
  /\ openSize' = 0
  /\ calls' = Append(calls, Call("open", LOG_FILE(Log_File_Number)))
  /\ pc' = "avail"
  /\ UNCHANGED << led, sd, handles, logvars, envvars, appended, unflushed,
                  ring0, lost, fired >>

NextFault == Next \/ ReopenFails

\* the logger on a card whose open can fail
SpecFault == Init /\ [][NextFault]_vars

\* C14 as stated, for the open of a rotation: once it has failed no file is
\* open, and the logger does not go on counting the bytes it drains as bytes
\* stored.
C14_FailedOpenStopsCounting ==
  [][ (pc = "avail" /\ dataFile = NoFile /\ pc' # pc) =>
         /\ Log_File_Byte_Count' = Log_File_Byte_Count
         /\ Log_Byte_Count' = Log_Byte_Count
    ]_vars

\* ---- C15 -------------------------------------------------------------------
\* C15: a byte that arrives while the receive buffer is full is dropped and
\* nothing else changes: the buffer keeps its bytes in their order, and the
\* position of the main program, the logger's variables, the open file and
\* the card are untouched.
C15_OverflowDropsOnlyNewByte ==
  [][ (sent' = sent + 1 /\ Len(rx) >= SERIAL_BUFFER_SIZE) =>
         /\ rx' = rx
         /\ accepted' = accepted
         /\ UNCHANGED << pc, led, sd, dataFile, handles, logvars, appended,
                         unflushed, calls, fired >>
    ]_vars

\* a byte was dropped on a full buffer, and a byte that arrived after it has
\* been drained and stored
C15_Witness ==
  /\ appended # << >>
  /\ \E k \in 1 .. sent :
        /\ \A i \in 1 .. Len(accepted) : accepted[i] # k
        /\ appended[Len(appended)][2] > k

\* ---- C16 -------------------------------------------------------------------
\* #define LOG_FILE_NUMBER_MAX 1299, unscaled: the indices LOG_FILE is used on
NAME_INDEX_MAX == 1299

\* the file name of any index of the ring is formed, as setup() and loop() form
\* it for Log_File_Number
InitName ==
  /\ pc = "name"
  /\ led = "on"
  /\ sd = << >> /\ ring0 = { }
  /\ dataFile = NoFile
  /\ handles = { }
  /\ openSize = 0
  /\ lost = [ active |-> NoFile, written |-> NoFile ]
  /\ Log_Time = 0
  /\ Log_Byte_Count = 0
  /\ Log_File_Byte_Count = 0
  /\ Log_File_Number \in 0 .. NAME_INDEX_MAX
  /\ millis = 0
  /\ rx = << >>
  /\ irq = FALSE
  /\ sent = 0
  /\ accepted = << >>
  /\ appended = << >>
  /\ unflushed = 0
  /\ calls = << >>
  /\ fired = << FALSE, FALSE >>

FormatName ==
  /\ pc = "name"
  /\ dataFile' = LOG_FILE(Log_File_Number)
  /\ pc' = "named"
  /\ UNCHANGED << led, sd, handles, logvars, envvars, histvars, calls, fired >>

SpecName == InitName /\ [][FormatName]_vars

\* the name of index i written out digit by digit: thousands, hundreds, tens
\* and units between the prefix and the suffix
FourDigitName(i) ==
  "Dat" \o Digit(i \div 1000) \o Digit((i \div 100) % 10)
        \o Digit((i \div 10) % 10) \o Digit(i % 10) \o ".log"

PowerLoss ==
  /\ pc # "begin"
  /\ pc' = "begin"
  /\ led' = "on"
  /\ sd' = IF dataFile \in DOMAIN sd
             THEN [ sd EXCEPT ![dataFile] = @ - unflushed ] ELSE sd
  /\ ring0' = { i \in Ring : LOG_FILE(i) \in DOMAIN sd }
  /\ lost' = [ active  |-> IF dataFile # NoFile THEN dataFile
                           ELSE IF Rotating THEN calls[2][2]
                           ELSE lost.active,
               written |-> IF appended # << >>
                             THEN appended[Len(appended)][1] ELSE NoFile ]
  /\ dataFile' = NoFile
  /\ handles' = { }
  /\ openSize' = 0
  /\ Log_Time' = 0
  /\ Log_Byte_Count' = 0
  /\ Log_File_Byte_Count' = 0
  /\ Log_File_Number' = 0
  /\ millis' = 0
  /\ rx' = << >>
  /\ irq' = FALSE
  /\ accepted' = << >>
  /\ appended' = << >>
  /\ unflushed' = 0
  /\ calls' = << >>
  /\ fired' = << FALSE, FALSE >>
  /\ UNCHANGED sent

\* a card that only this logger has written: it is empty at first power-up
InitPower == Init /\ ring0 = { }

NextPower == Next \/ PowerLoss

SpecPower == InitPower /\ [][NextPower]_vars

C18_OpenedSlotEmpty ==
  /\ pc \in { "open", "reopen" } => LOG_FILE(Log_File_Number) \notin DOMAIN sd
  /\ dataFile # NoFile => Log_File_Byte_Count = sd[dataFile]

\* ---- C20 -------------------------------------------------------------------
\* the clock is followed from WrapLead ms before it wraps
WrapLead == 3

\* nothing arrives for a long time: loop() idles until the clock stands
\* WrapLead ms before its wrap
LongSilence ==
  /\ pc = "avail"
  /\ rx = << >>
  /\ millis < UINT32 - WrapLead
  /\ millis' = UINT32 - WrapLead
  /\ UNCHANGED << pc, led, sd, dataFile, handles, logvars, rx, irq, sent,
                  accepted, histvars, calls, fired >>

\* a millisecond passes near the wrap: millis() goes from UINT32 - 1 to 0
TickWrap ==
  /\ millis >= UINT32 - WrapLead
  /\ millis' = (millis + 1) % UINT32
  /\ UNCHANGED << pc, led, sd, dataFile, handles, logvars, rx, irq, sent,
                  accepted, histvars, calls, fired >>

NextWrap == Next \/ LongSilence \/ TickWrap

SpecWrap == Init /\ [][NextWrap]_vars

\* milliseconds since Log_Time was last set, on the wrapping clock
SinceRearm == (millis - Log_Time + LOG_TIME_TRIGGER + UINT32) % UINT32

\* C20 as stated: from the second byte on (the first one always flushes), the
\* trigger test of a byte drained less than LOG_TIME_TRIGGER ms after the
\* previous flush, with fewer than LOG_BYTE_TRIGGER bytes counted, does not
\* flush, and that of a byte drained LOG_TIME_TRIGGER ms or more after it does.
C20_TimeTriggerAcrossWrap ==
  [][ (pc = "trig" /\ pc' # "trig" /\ Len(appended) >= 2) =>
        /\ (SinceRearm < LOG_TIME_TRIGGER /\ ~ByteTrigger(Log_Byte_Count))
              => pc' = "avail"
        /\ SinceRearm >= LOG_TIME_TRIGGER => pc' = "rearm" ]_vars

====
